---- MODULE Spec2Model ----
(***************************************************************************)
(* Harvesters-Hub backend: identity registration for the five collections  *)
(* (Campus, District, Community, Cell, SuperAdmin), the universal login    *)
(* cascade, and the media posts with per-device like toggles.              *)
(*                                                                         *)
(* Strings are sequences of one-character strings, so that trim(),         *)
(* replace(/\s+/g, " ") and toLowerCase() are computed, not assumed.       *)
(* A form field that is absent and one that is "" are both the empty       *)
(* sequence: the handlers only test them with `!field`.                    *)
(* A collection is the sequence of its documents in insertion (natural)    *)
(* order; findOne returns the first document that satisfies the filter.    *)
(* A filter on a path the schema does not have (email on Community and     *)
(* SuperAdmin) selects nothing.                                            *)
(* A document's _id is its position in its collection; a reference field   *)
(* holds such a position, NoRef for a blank form field, or BadId for a     *)
(* string that is no ObjectId.                                             *)
(***************************************************************************)
EXTENDS Integers, Sequences, FiniteSets, TLC

VARIABLES Campus, District, Community, Cell, SuperAdmin, Image, res, rawName, pending,
          assets, received, reads, typed

vars == <<Campus, District, Community, Cell, SuperAdmin, Image, res, rawName, pending,
          assets, received, reads, typed>>

identity == <<Campus, District, Community, Cell, SuperAdmin>>

media == <<Image, assets, received, reads>>

\* ------------------------------------------------------------------ bounds
MaxRecords == 2
MaxPending == 2
MaxPosts == 2
MaxFiles == 2
MaxAssets == 3
MaxReceived == 1
MaxReads == 3

\* ------------------------------------------------------------------ strings
SP == " "
TAB == "\t"

IsSpace(c) == c \in {SP, TAB}

toLowerChar(c) ==
  CASE c = "A" -> "a"
    [] c = "B" -> "b"
    [] c = "E" -> "e"
    [] c = "P" -> "p"
    [] c = "Q" -> "q"
    [] OTHER -> c

toLowerCase(s) == [i \in 1..Len(s) |-> toLowerChar(s[i])]

RECURSIVE trimStart(_)
trimStart(s) ==
  IF s = <<>> THEN <<>>
  ELSE IF IsSpace(Head(s)) THEN trimStart(Tail(s)) ELSE s

RECURSIVE trimEnd(_)
trimEnd(s) ==
  IF s = <<>> THEN <<>>
  ELSE IF IsSpace(s[Len(s)]) THEN trimEnd(SubSeq(s, 1, Len(s) - 1)) ELSE s

trim(s) == trimEnd(trimStart(s))

\* s.replace(/\s+/g, " "): every maximal run of whitespace becomes one space
RECURSIVE collapseWhitespace(_)
collapseWhitespace(s) ==
  IF s = <<>> THEN <<>>
  ELSE IF IsSpace(Head(s)) THEN <<SP>> \o collapseWhitespace(trimStart(s))
  ELSE <<Head(s)>> \o collapseWhitespace(Tail(s))

\* ------------------------------------------------------------------ inputs
Names == { <<>>, <<"A">>, <<SP, "a">>, <<"a", TAB, SP, "b">> }
Emails == { <<>>, <<SP, "E">>, <<"a">> }
Passwords == { <<>>, <<"p">>, <<"p", SP>> }
Others == { <<>>, <<"x">> }
Identifiers == { <<>>, <<"A">>, <<"a">>, <<"E", SP>>, <<"a", SP, "b">>, <<"z">> }
LoginPasswords == Passwords \cup { <<"P">> }

NoRef == 0
BadId == -1
RefInputs == { NoRef, 1, BadId }

\* The registration requests: every combination of name, email and password
\* (each possibly blank) with the other fields well formed, and, for every
\* name, each single defect of another field (blank, or no ObjectId).
CampusRequests ==
  { [name |-> n, address |-> <<"x">>, email |-> e, password |-> p] :
      n \in Names, e \in Emails, p \in Passwords }
  \cup { [name |-> n, address |-> <<>>, email |-> <<SP, "E">>, password |-> <<"p">>] :
           n \in Names }

DistrictRequests ==
  { [name |-> n, campus |-> 1, email |-> e, password |-> p] :
      n \in Names, e \in Emails, p \in Passwords }
  \cup { [name |-> n, campus |-> c, email |-> <<SP, "E">>, password |-> <<"p">>] :
           n \in Names, c \in RefInputs }

OkCommunityForm == [district |-> 1, leader |-> <<"x">>, leaderPhone |-> <<"x">>]
CommunityForms ==
  { [OkCommunityForm EXCEPT !.district = v] : v \in RefInputs }
  \cup { [OkCommunityForm EXCEPT ![f] = v] : f \in {"leader", "leaderPhone"}, v \in Others }
CommunityRequests ==
  { [name |-> n, form |-> OkCommunityForm, password |-> p] : n \in Names, p \in Passwords }
  \cup { [name |-> n, form |-> f, password |-> <<"p">>] : n \in Names, f \in CommunityForms }

OkCellForm ==
  [campus |-> 1, district |-> 1, community |-> 1,
   address |-> <<"x">>, leader |-> <<"x">>, phone |-> <<"x">>]
CellForms ==
  { [OkCellForm EXCEPT ![f] = v] : f \in {"campus", "district", "community"},
                                   v \in RefInputs }
  \cup { [OkCellForm EXCEPT ![f] = v] : f \in {"address", "leader", "phone"}, v \in Others }
CellRequests ==
  { [name |-> n, form |-> OkCellForm, email |-> e, password |-> p] :
      n \in Names, e \in Emails, p \in Passwords }
  \cup { [name |-> n, form |-> f, email |-> <<SP, "E">>, password |-> <<"p">>] :
           n \in Names, f \in CellForms }

SuperAdminRequests == { [name |-> n, password |-> p] : n \in Names, p \in Passwords }

\* mongoose.Types.ObjectId.isValid / the cast of an ObjectId path
isValid(id) == id \in Nat \ {0}

Roles == <<"campus", "district", "community", "cell", "superadmin">>

\* ------------------------------------------------------------------ store
Coll(role) ==
  CASE role = "campus" -> Campus
    [] role = "district" -> District
    [] role = "community" -> Community
    [] role = "cell" -> Cell
    [] role = "superadmin" -> SuperAdmin

TotalRecords == Len(Campus) + Len(District) + Len(Community) + Len(Cell) + Len(SuperAdmin)

\* a findOne that returns the last of the selected positions
findOneLast(selected) ==
  IF selected = {} THEN 0
  ELSE CHOOSE i \in selected : \A j \in selected : i >= j

\* Model.findOne(filter): of the selected positions of a collection, the first
\* in natural order, 0 when none is selected
findOne(selected) ==
  IF selected = {} THEN 0
  ELSE CHOOSE i \in selected : \A j \in selected : i <= j

\* Model.findById(id): a CastError for a string that is no ObjectId
findById(coll, id) == IF id \in 1..Len(coll) THEN id ELSE 0

\* the schemas' paths with unique: true (a unique index of the collection)
UniqueKey(role, doc) ==
  CASE role \in {"campus", "district", "cell"} -> doc.email
    [] role \in {"community", "superadmin"} -> doc.name

\* required: true on a String path rejects "" as well as a missing value; an
\* ObjectId path rejects a value that casts to no ObjectId
Validates(role, doc, others) ==
  /\ doc.name # <<>>
  /\ doc.password # <<>>
  /\ \A i \in 1..Len(others) : others[i] # <<>>
  /\ role \in {"campus", "district", "cell"} => doc.email # <<>>
  /\ role = "district" => isValid(doc.campus)
  /\ role = "community" => isValid(doc.district)
  /\ role = "cell" => isValid(doc.campus) /\ isValid(doc.district) /\ isValid(doc.community)

\* a hook that trims the stored name and does not lowercase it
preSaveTrimOnly(doc) ==
  IF doc.name # <<>>
  THEN [doc EXCEPT !.normalizedName = trim(doc.name)]
  ELSE doc

\* schema.pre("save"): normalizedName recomputed from the stored name
preSave(doc) ==
  IF doc.name # <<>>
  THEN [doc EXCEPT !.normalizedName = trim(toLowerCase(doc.name))]
  ELSE doc

\* normalizedName: { type: String, lowercase: true }: the setter of the path
setNormalizedName(v) == toLowerCase(v)

\* document.save() of a new document: validation, the pre-save hook, then the
\* insert, which the unique index refuses for a duplicate key.
\* Returns the document as stored, or the empty sequence when save() throws.
save(role, doc, others) ==
  LET d == [doc EXCEPT !.normalizedName = setNormalizedName(doc.normalizedName)] IN
  IF ~Validates(role, d, others) THEN <<>>
  ELSE LET h == [preSave(d) EXCEPT !._id = Len(Coll(role)) + 1] IN
       IF \E i \in 1..Len(Coll(role)) :
            UniqueKey(role, Coll(role)[i]) = UniqueKey(role, h)
       THEN <<>>
       ELSE <<h>>

\* ------------------------------------------------------------------ replies
Reply(op, status, message) ==
  [op |-> op, status |-> status, message |-> message]

Created(op, doc) ==
  [op |-> op, status |-> 201, message |-> "registered successfully", doc |-> doc]

ServerError(op) == Reply(op, 500, "Server error")

\* a handler's outcome: the reply, and the documents appended to its collection
Out(r, docs) == [res |-> r, docs |-> docs]

Saved(op, stored) ==
  IF stored = <<>> THEN Out(ServerError(op), <<>>)
  ELSE Out(Created(op, stored[1]), stored)

\* what a handler has decided when it reaches save(): the reply of an early
\* return, or the document to persist
Fail(r) == [ok |-> FALSE, res |-> r]
Pass(op, role, doc, others) ==
  [ok |-> TRUE, op |-> op, role |-> role, doc |-> doc, others |-> others]

Persist(p) == Saved(p.op, save(p.role, p.doc, p.others))

Handle(p) == IF p.ok THEN Persist(p) ELSE Out(p.res, <<>>)

\* ------------------------------------------------------------------ registration
\* the handler with the lookup of its earlier revision, Campus.findOne({ email })
campusPrepareByEmail(name, address, email, password) ==
  IF name = <<>> \/ address = <<>> \/ email = <<>> \/ password = <<>>
  THEN Fail(Reply("campus/register", 400, "All fields are required"))
  ELSE LET displayName == collapseWhitespace(trim(name))
           normalizedName == toLowerCase(displayName)
           address2 == collapseWhitespace(trim(address))
           email2 == toLowerCase(trim(email))
           password2 == trim(password)
           existing == findOne({ i \in 1..Len(Campus) : Campus[i].email = email2 })
       IN IF existing # 0
          THEN Fail(Reply("campus/register", 400, "Campus already exists"))
          ELSE Pass("campus/register", "campus",
                    [_id |-> 0, name |-> displayName, normalizedName |-> normalizedName,
                     email |-> email2, password |-> password2],
                    <<address2>>)

\* POST /api/campus/register, up to (not including) newCampus.save()
campusPrepare(name, address, email, password) ==
  IF name = <<>> \/ address = <<>> \/ email = <<>> \/ password = <<>>
  THEN Fail(Reply("campus/register", 400, "All fields are required"))
  ELSE LET displayName == collapseWhitespace(trim(name))
           normalizedName == toLowerCase(displayName)
           address2 == collapseWhitespace(trim(address))
           email2 == toLowerCase(trim(email))
           password2 == trim(password)
           existing == findOne({ i \in 1..Len(Campus) :
                                 Campus[i].email = email2 \/ Campus[i].normalizedName = normalizedName })
       IN IF existing # 0
          THEN Fail(Reply("campus/register", 400, "Campus already exists"))
          ELSE Pass("campus/register", "campus",
                    [_id |-> 0, name |-> displayName, normalizedName |-> normalizedName,
                     email |-> email2, password |-> password2],
                    <<address2>>)

campusRegister(name, address, email, password) ==
  Handle(campusPrepare(name, address, email, password))

\* POST /api/district/register, up to newDistrict.save()
districtPrepare(name, campus, email, password) ==
  IF name = <<>> \/ campus = NoRef \/ email = <<>> \/ password = <<>>
  THEN Fail(Reply("district/register", 400, "All fields are required"))
  ELSE LET cleanName == collapseWhitespace(trim(name))
           normalizedName == toLowerCase(cleanName)
           email2 == toLowerCase(trim(email))
           password2 == trim(password)
           existing == findOne({ i \in 1..Len(District) :
                                 District[i].email = email2 \/ District[i].normalizedName = normalizedName })
       IN IF ~isValid(campus)
          THEN Fail(ServerError("district/register"))
          ELSE IF findById(Campus, campus) = 0
          THEN Fail(Reply("district/register", 400, "Invalid campus ID"))
          ELSE IF existing # 0
          THEN Fail(Reply("district/register", 400, "District already exists"))
          ELSE Pass("district/register", "district",
                    [_id |-> 0, name |-> cleanName, normalizedName |-> normalizedName,
                     campus |-> campus, email |-> email2, password |-> password2],
                    <<>>)

districtRegister(name, campus, email, password) ==
  Handle(districtPrepare(name, campus, email, password))

\* POST /api/communities, up to community.save()
communityPrepare(name, district, leader, leaderPhone, password) ==
  IF name = <<>> \/ district = NoRef \/ leader = <<>> \/ leaderPhone = <<>> \/ password = <<>>
  THEN Fail(Reply("communities", 400, "All fields are required"))
  ELSE LET cleanName == collapseWhitespace(trim(name))
           normalizedName == toLowerCase(cleanName)
           leader2 == collapseWhitespace(trim(leader))
           leaderPhone2 == trim(leaderPhone)
           password2 == trim(password)
           existing == findOne({ i \in 1..Len(Community) :
                                 Community[i].normalizedName = normalizedName })
       IN IF existing # 0
          THEN Fail(Reply("communities", 400, "Community already exists"))
          ELSE Pass("communities", "community",
                    [_id |-> 0, name |-> cleanName, normalizedName |-> normalizedName,
                     district |-> district, password |-> password2],
                    <<leader2, leaderPhone2>>)

communityRegister(name, district, leader, leaderPhone, password) ==
  Handle(communityPrepare(name, district, leader, leaderPhone, password))

\* POST /api/cell/register, up to newCell.save(); the password is stored as typed
cellPrepare(name, campus, district, community, address, leader, phone, email, password) ==
  IF \/ name = <<>> \/ campus = NoRef \/ district = NoRef \/ community = NoRef
     \/ address = <<>> \/ leader = <<>> \/ phone = <<>> \/ email = <<>> \/ password = <<>>
  THEN Fail(Reply("cell/register", 400, "All fields are required"))
  ELSE LET cleanName == collapseWhitespace(trim(name))
           normalizedName == toLowerCase(cleanName)
           email2 == toLowerCase(trim(email))
           existing == findOne({ i \in 1..Len(Cell) :
                                 Cell[i].normalizedName = normalizedName \/ Cell[i].email = email2 })
       IN IF existing # 0
          THEN Fail(Reply("cell/register", 400, "Cell already exists"))
          ELSE Pass("cell/register", "cell",
                    [_id |-> 0, name |-> cleanName, normalizedName |-> normalizedName,
                     campus |-> campus, district |-> district, community |-> community,
                     email |-> email2, password |-> password],
                    <<trim(address), trim(leader), trim(phone)>>)

cellRegister(name, campus, district, community, address, leader, phone, email, password) ==
  Handle(cellPrepare(name, campus, district, community, address, leader, phone, email, password))

\* the handler with the password trimmed before it is stored
superAdminPrepareTrimmed(name, password) ==
  IF name = <<>> \/ password = <<>>
  THEN Fail(Reply("superadmin/register", 400, "All fields are required"))
  ELSE LET cleanName == collapseWhitespace(trim(name))
           normalizedName == toLowerCase(cleanName)
           exists == findOne({ i \in 1..Len(SuperAdmin) :
                               SuperAdmin[i].normalizedName = normalizedName })
       IN IF exists # 0
          THEN Fail(Reply("superadmin/register", 400, "Super Admin already exists"))
          ELSE Pass("superadmin/register", "superadmin",
                    [_id |-> 0, name |-> cleanName, normalizedName |-> normalizedName,
                     password |-> trim(password)],
                    <<>>)

\* POST /superadmin/register, up to SuperAdmin.create(); the password is stored as typed
superAdminPrepare(name, password) ==
  IF name = <<>> \/ password = <<>>
  THEN Fail(Reply("superadmin/register", 400, "All fields are required"))
  ELSE LET cleanName == collapseWhitespace(trim(name))
           normalizedName == toLowerCase(cleanName)
           exists == findOne({ i \in 1..Len(SuperAdmin) :
                               SuperAdmin[i].normalizedName = normalizedName })
       IN IF exists # 0
          THEN Fail(Reply("superadmin/register", 400, "Super Admin already exists"))
          ELSE Pass("superadmin/register", "superadmin",
                    [_id |-> 0, name |-> cleanName, normalizedName |-> normalizedName,
                     password |-> password],
                    <<>>)

superAdminRegister(name, password) == Handle(superAdminPrepare(name, password))

\* ------------------------------------------------------------------ universal login
HasEmail(role) == role \in {"campus", "district", "cell"}

\* an identifier that is trimmed and keeps its letter case
trimIdentifier(identifier) == trim(identifier)

\* identifier = identifier.trim().toLowerCase()
normalizeIdentifier(identifier) == toLowerCase(trim(identifier))

\* a probe on normalizedName alone
ProbeByName(role, r, identifier) == r.normalizedName = identifier

\* the filter of one probe of /api/universal-login2 on the normalized identifier
Probe(role, r, identifier) ==
  \/ HasEmail(role) /\ r.email = identifier
  \/ r.normalizedName = identifier

\* the cascade with District probed before Campus
cascade2DistrictFirst(identifier) ==
  LET campus == findOne({ i \in 1..Len(Campus) : Probe("campus", Campus[i], identifier) })
      district == findOne({ i \in 1..Len(District) : Probe("district", District[i], identifier) })
      community == findOne({ i \in 1..Len(Community) :
                             Probe("community", Community[i], identifier) })
      cell == findOne({ i \in 1..Len(Cell) : Probe("cell", Cell[i], identifier) })
      superadmin == findOne({ i \in 1..Len(SuperAdmin) :
                              Probe("superadmin", SuperAdmin[i], identifier) })
  IN IF district # 0 THEN [role |-> "district", user |-> district]
     ELSE IF campus # 0 THEN [role |-> "campus", user |-> campus]
     ELSE IF community # 0 THEN [role |-> "community", user |-> community]
     ELSE IF cell # 0 THEN [role |-> "cell", user |-> cell]
     ELSE IF superadmin # 0 THEN [role |-> "superadmin", user |-> superadmin]
     ELSE [role |-> "", user |-> 0]

\* the cascade that stops after Cell, as /api/universal-login does not know SuperAdmin
cascade2NoSuperAdmin(identifier) ==
  LET campus == findOne({ i \in 1..Len(Campus) : Probe("campus", Campus[i], identifier) })
      district == findOne({ i \in 1..Len(District) : Probe("district", District[i], identifier) })
      community == findOne({ i \in 1..Len(Community) :
                             Probe("community", Community[i], identifier) })
      cell == findOne({ i \in 1..Len(Cell) : Probe("cell", Cell[i], identifier) })
  IN IF campus # 0 THEN [role |-> "campus", user |-> campus]
     ELSE IF district # 0 THEN [role |-> "district", user |-> district]
     ELSE IF community # 0 THEN [role |-> "community", user |-> community]
     ELSE IF cell # 0 THEN [role |-> "cell", user |-> cell]
     ELSE [role |-> "", user |-> 0]

\* the cascade of /api/universal-login2: [role, user], user = 0 when nothing matched
cascade2(identifier) ==
  LET campus == findOne({ i \in 1..Len(Campus) : Probe("campus", Campus[i], identifier) })
      district == findOne({ i \in 1..Len(District) : Probe("district", District[i], identifier) })
      community == findOne({ i \in 1..Len(Community) :
                             Probe("community", Community[i], identifier) })
      cell == findOne({ i \in 1..Len(Cell) : Probe("cell", Cell[i], identifier) })
      superadmin == findOne({ i \in 1..Len(SuperAdmin) :
                              Probe("superadmin", SuperAdmin[i], identifier) })
  IN IF campus # 0 THEN [role |-> "campus", user |-> campus]
     ELSE IF district # 0 THEN [role |-> "district", user |-> district]
     ELSE IF community # 0 THEN [role |-> "community", user |-> community]
     ELSE IF cell # 0 THEN [role |-> "cell", user |-> cell]
     ELSE IF superadmin # 0 THEN [role |-> "superadmin", user |-> superadmin]
     ELSE [role |-> "", user |-> 0]

NoUser == [id |-> 0, name |-> <<>>, email |-> <<>>]

LoginReply(status, message, role, user) ==
  [op |-> "universal-login2", status |-> status, message |-> message,
   role |-> role, user |-> user]

\* a user object that carries the lookup key in place of the display name
userOfNormalized(role, doc) ==
  [id |-> doc._id, name |-> doc.normalizedName,
   email |-> IF HasEmail(role) THEN doc.email ELSE <<>>]

\* the user object of the 200 reply: id, name, email || ""
userOf(role, doc) ==
  [id |-> doc._id, name |-> doc.name,
   email |-> IF HasEmail(role) THEN doc.email ELSE <<>>]

\* the handler with a comparison that ignores whitespace around the passwords
universalLogin2Trimmed(identifier, password) ==
  IF identifier = <<>> \/ password = <<>>
  THEN LoginReply(400, "All fields are required", "", NoUser)
  ELSE LET found == cascade2(normalizeIdentifier(identifier)) IN
       IF found.user = 0
       THEN LoginReply(404, "User not found", "", NoUser)
       ELSE LET user == Coll(found.role)[found.user] IN
            IF trim(password) # trim(user.password)
            THEN LoginReply(400, "Invalid password", "", NoUser)
            ELSE LoginReply(200, "Login successful", found.role, userOf(found.role, user))

\* POST /api/universal-login2
universalLogin2(identifier, password) ==
  IF identifier = <<>> \/ password = <<>>
  THEN LoginReply(400, "All fields are required", "", NoUser)
  ELSE LET found == cascade2(normalizeIdentifier(identifier)) IN
       IF found.user = 0
       THEN LoginReply(404, "User not found", "", NoUser)
       ELSE LET user == Coll(found.role)[found.user] IN
            IF password # user.password
            THEN LoginReply(400, "Invalid password", "", NoUser)
            ELSE LoginReply(200, "Login successful", found.role, userOf(found.role, user))

\* ------------------------------------------------------------------ the other logins
\* the filter { $or: [{ email: identifier }, { name: identifier }] } on the
\* identifier as supplied
ProbeRaw(role, r, identifier) ==
  \/ HasEmail(role) /\ r.email = identifier
  \/ r.name = identifier

\* the cascade with Cell probed first
cascade1CellFirst(identifier) ==
  LET campus == findOne({ i \in 1..Len(Campus) : ProbeRaw("campus", Campus[i], identifier) })
      district == findOne({ i \in 1..Len(District) :
                            ProbeRaw("district", District[i], identifier) })
      cell == findOne({ i \in 1..Len(Cell) : ProbeRaw("cell", Cell[i], identifier) })
  IN IF cell # 0 THEN [role |-> "cell", user |-> cell]
     ELSE IF campus # 0 THEN [role |-> "campus", user |-> campus]
     ELSE IF district # 0 THEN [role |-> "district", user |-> district]
     ELSE [role |-> "", user |-> 0]

\* the cascade of /api/universal-login: Campus, District, Cell
cascade1(identifier) ==
  LET campus == findOne({ i \in 1..Len(Campus) : ProbeRaw("campus", Campus[i], identifier) })
      district == findOne({ i \in 1..Len(District) :
                            ProbeRaw("district", District[i], identifier) })
      cell == findOne({ i \in 1..Len(Cell) : ProbeRaw("cell", Cell[i], identifier) })
  IN IF campus # 0 THEN [role |-> "campus", user |-> campus]
     ELSE IF district # 0 THEN [role |-> "district", user |-> district]
     ELSE IF cell # 0 THEN [role |-> "cell", user |-> cell]
     ELSE [role |-> "", user |-> 0]

LoginReplyOf(op, status, message, role, user) ==
  [op |-> op, status |-> status, message |-> message, role |-> role, user |-> user]

\* POST /api/universal-login
universalLogin(identifier, password) ==
  IF identifier = <<>> \/ password = <<>>
  THEN LoginReplyOf("universal-login", 400, "All fields are required", "", NoUser)
  ELSE LET found == cascade1(identifier) IN
       IF found.user = 0
       THEN LoginReplyOf("universal-login", 404, "User not found", "", NoUser)
       ELSE LET user == Coll(found.role)[found.user] IN
            IF password # user.password
            THEN LoginReplyOf("universal-login", 400, "Invalid password", "", NoUser)
            ELSE LoginReplyOf("universal-login", 200, "Login successful", found.role,
                              userOf(found.role, user))

\* POST /api/campus/login
campusLogin(identifier, password) ==
  IF identifier = <<>> \/ password = <<>>
  THEN LoginReplyOf("campus/login", 400, "All fields are required", "", NoUser)
  ELSE LET campus == findOne({ i \in 1..Len(Campus) :
                               ProbeRaw("campus", Campus[i], identifier) }) IN
       IF campus = 0
       THEN LoginReplyOf("campus/login", 404, "Campus not found", "", NoUser)
       ELSE IF Campus[campus].password # password
       THEN LoginReplyOf("campus/login", 400, "Invalid credentials", "", NoUser)
       ELSE LoginReplyOf("campus/login", 200, "Login successful", "campus",
                         userOf("campus", Campus[campus]))

\* POST /api/district/login
districtLogin(identifier, password) ==
  IF identifier = <<>> \/ password = <<>>
  THEN LoginReplyOf("district/login", 400, "All fields are required", "", NoUser)
  ELSE LET district == findOne({ i \in 1..Len(District) :
                                 ProbeRaw("district", District[i], identifier) }) IN
       IF district = 0
       THEN LoginReplyOf("district/login", 404, "District not found", "", NoUser)
       ELSE IF District[district].password # password
       THEN LoginReplyOf("district/login", 400, "Invalid credentials", "", NoUser)
       ELSE LoginReplyOf("district/login", 200, "Login successful", "district",
                         userOf("district", District[district]))

\* POST /login: the community login, by name
communityLogin(name, password) ==
  LET community == findOne({ i \in 1..Len(Community) : Community[i].name = name }) IN
  IF community = 0 \/ Community[community].password # password
  THEN LoginReplyOf("login", 400, "Invalid credentials", "", NoUser)
  ELSE LoginReplyOf("login", 200, "Login successful", "community",
                    userOf("community", Community[community]))

\* POST /api/cell/login: no test of the fields before the lookup
cellLogin(identifier, password) ==
  LET cell == findOne({ i \in 1..Len(Cell) : ProbeRaw("cell", Cell[i], identifier) }) IN
  IF cell = 0
  THEN LoginReplyOf("cell/login", 404, "Cell not found", "", NoUser)
  ELSE IF Cell[cell].password # password
  THEN LoginReplyOf("cell/login", 400, "Invalid credentials", "", NoUser)
  ELSE LoginReplyOf("cell/login", 200, "Login successful", "cell", userOf("cell", Cell[cell]))

\* POST /superAdmin/login, by name
superAdminLogin(name, password) ==
  LET superAdmin == findOne({ i \in 1..Len(SuperAdmin) : SuperAdmin[i].name = name }) IN
  IF superAdmin = 0 \/ SuperAdmin[superAdmin].password # password
  THEN LoginReplyOf("superAdmin/login", 400, "Invalid credentials", "", NoUser)
  ELSE LoginReplyOf("superAdmin/login", 200, "Login successful", "superadmin",
                    userOf("superadmin", SuperAdmin[superAdmin]))

\* ------------------------------------------------------------------ actions
\* an insert that replaces what the collection holds
Replace1(coll, docs) == IF docs = <<>> THEN coll ELSE docs

Append1(coll, docs) == coll \o docs

Remove(q, i) == SubSeq(q, 1, i - 1) \o SubSeq(q, i + 1, Len(q))

RegisterCampus ==
  /\ TotalRecords < MaxRecords
  /\ \E r \in CampusRequests :
       LET o == campusRegister(r.name, r.address, r.email, r.password)
           name == r.name IN
       /\ Campus' = Append1(Campus, o.docs)
       /\ res' = o.res
       /\ rawName' = IF o.docs = <<>> THEN rawName
                     ELSE [rawName EXCEPT !.campus = Append(@, name)]
  /\ UNCHANGED <<District, Community, Cell, SuperAdmin, media, pending, typed>>

RegisterDistrict ==
  /\ TotalRecords < MaxRecords
  /\ \E r \in DistrictRequests :
       LET o == districtRegister(r.name, r.campus, r.email, r.password)
           name == r.name IN
       /\ District' = Append1(District, o.docs)
       /\ res' = o.res
       /\ rawName' = IF o.docs = <<>> THEN rawName
                     ELSE [rawName EXCEPT !.district = Append(@, name)]
  /\ UNCHANGED <<Campus, Community, Cell, SuperAdmin, media, pending, typed>>

RegisterCommunity ==
  /\ TotalRecords < MaxRecords
  /\ \E r \in CommunityRequests :
       LET o == communityRegister(r.name, r.form.district, r.form.leader,
                                  r.form.leaderPhone, r.password)
           name == r.name IN
       /\ Community' = Append1(Community, o.docs)
       /\ res' = o.res
       /\ rawName' = IF o.docs = <<>> THEN rawName
                     ELSE [rawName EXCEPT !.community = Append(@, name)]
  /\ UNCHANGED <<Campus, District, Cell, SuperAdmin, media, pending, typed>>

RegisterCell ==
  /\ TotalRecords < MaxRecords
  /\ \E r \in CellRequests :
       LET o == cellRegister(r.name, r.form.campus, r.form.district, r.form.community,
                             r.form.address, r.form.leader, r.form.phone,
                             r.email, r.password)
           name == r.name IN
       /\ Cell' = Append1(Cell, o.docs)
       /\ res' = o.res
       /\ rawName' = IF o.docs = <<>> THEN rawName
                     ELSE [rawName EXCEPT !.cell = Append(@, name)]
  /\ UNCHANGED <<Campus, District, Community, SuperAdmin, media, pending, typed>>

RegisterSuperAdmin ==
  /\ TotalRecords < MaxRecords
  /\ \E r \in SuperAdminRequests :
       LET o == superAdminRegister(r.name, r.password)
           name == r.name IN
       /\ SuperAdmin' = Append1(SuperAdmin, o.docs)
       /\ res' = o.res
       /\ rawName' = IF o.docs = <<>> THEN rawName
                     ELSE [rawName EXCEPT !.superadmin = Append(@, name)]
  /\ UNCHANGED <<Campus, District, Community, Cell, media, pending, typed>>

UniversalLogin2 ==
  /\ \E identifier \in Identifiers, password \in LoginPasswords :
       res' = universalLogin2(identifier, password)
  /\ UNCHANGED <<identity, media, rawName, pending, typed>>

\* no form typed yet
NoForm == [role |-> "", name |-> <<>>, email |-> <<>>, password |-> <<>>]

Init ==
  /\ Campus = <<>> /\ District = <<>> /\ Community = <<>> /\ Cell = <<>>
  /\ SuperAdmin = <<>> /\ Image = <<>>
  /\ assets = {} /\ received = <<>> /\ reads = <<>>
  /\ res = Reply("", 0, "")
  /\ rawName = [campus |-> <<>>, district |-> <<>>, community |-> <<>>, cell |-> <<>>,
                superadmin |-> <<>>]
  /\ pending = <<>>
  /\ typed = NoForm

Next ==
  \/ RegisterCampus
  \/ RegisterDistrict
  \/ RegisterCommunity
  \/ RegisterCell
  \/ RegisterSuperAdmin
  \/ UniversalLogin2

Spec == Init /\ [][Next]_vars

\* ------------------------------------------------------------------ every login route
\* the bodies the per-route logins are exercised with: an empty identifier, a
\* stored display name and an unknown one, with a stored password and another
LoginRequests ==
  { [identifier |-> i, password |-> p] :
      i \in { <<>>, <<"A">>, <<"z">> }, p \in { <<"p">>, <<"P">> } }

\* a login that writes the supplied password into the Campus it finds
CampusLoginRemember ==
  /\ \E r \in LoginRequests :
       LET campus == findOne({ i \in 1..Len(Campus) :
                               ProbeRaw("campus", Campus[i], r.identifier) }) IN
       /\ res' = campusLogin(r.identifier, r.password)
       /\ Campus' = IF campus = 0 THEN Campus
                    ELSE [Campus EXCEPT ![campus].password = r.password]
  /\ UNCHANGED <<District, Community, Cell, SuperAdmin, media, rawName, pending, typed>>

UniversalLogin ==
  /\ \E r \in LoginRequests : res' = universalLogin(r.identifier, r.password)
  /\ UNCHANGED <<identity, media, rawName, pending, typed>>

CampusLogin ==
  /\ \E r \in LoginRequests : res' = campusLogin(r.identifier, r.password)
  /\ UNCHANGED <<identity, media, rawName, pending, typed>>

DistrictLogin ==
  /\ \E r \in LoginRequests : res' = districtLogin(r.identifier, r.password)
  /\ UNCHANGED <<identity, media, rawName, pending, typed>>

CommunityLogin ==
  /\ \E r \in LoginRequests : res' = communityLogin(r.identifier, r.password)
  /\ UNCHANGED <<identity, media, rawName, pending, typed>>

CellLogin ==
  /\ \E r \in LoginRequests : res' = cellLogin(r.identifier, r.password)
  /\ UNCHANGED <<identity, media, rawName, pending, typed>>

SuperAdminLogin ==
  /\ \E r \in LoginRequests : res' = superAdminLogin(r.identifier, r.password)
  /\ UNCHANGED <<identity, media, rawName, pending, typed>>

\* ------------------------------------------------------------------ register, then log in
\* a client sends a registration form and keeps what it typed; o is the outcome
\* of the handler of its role on that form
Typing(role, o, name, email, password) ==
  LET grow(r, coll) == IF r = role THEN Append1(coll, o.docs) ELSE coll IN
  /\ Campus' = grow("campus", Campus)
  /\ District' = grow("district", District)
  /\ Community' = grow("community", Community)
  /\ Cell' = grow("cell", Cell)
  /\ SuperAdmin' = grow("superadmin", SuperAdmin)
  /\ res' = o.res
  /\ rawName' = IF o.docs = <<>> THEN rawName
                ELSE [rawName EXCEPT ![role] = Append(@, name)]
  /\ typed' = IF o.docs = <<>> THEN NoForm
              ELSE [role |-> role, name |-> name, email |-> email, password |-> password]
  /\ UNCHANGED <<media, pending>>

TypeCampus ==
  /\ TotalRecords < MaxRecords
  /\ \E r \in CampusRequests :
       Typing("campus", campusRegister(r.name, r.address, r.email, r.password),
              r.name, r.email, r.password)

TypeDistrict ==
  /\ TotalRecords < MaxRecords
  /\ \E r \in DistrictRequests :
       Typing("district", districtRegister(r.name, r.campus, r.email, r.password),
              r.name, r.email, r.password)

TypeCommunity ==
  /\ TotalRecords < MaxRecords
  /\ \E r \in CommunityRequests :
       Typing("community",
              communityRegister(r.name, r.form.district, r.form.leader, r.form.leaderPhone,
                                r.password),
              r.name, <<>>, r.password)

TypeCell ==
  /\ TotalRecords < MaxRecords
  /\ \E r \in CellRequests :
       Typing("cell",
              cellRegister(r.name, r.form.campus, r.form.district, r.form.community,
                           r.form.address, r.form.leader, r.form.phone, r.email, r.password),
              r.name, r.email, r.password)

TypeSuperAdmin ==
  /\ TotalRecords < MaxRecords
  /\ \E r \in SuperAdminRequests :
       Typing("superadmin", superAdminRegister(r.name, r.password), r.name, <<>>, r.password)

\* the client logs in with the name or the email and the password it typed
LoginAsTyped ==
  /\ typed # NoForm
  /\ \E identifier \in {typed.name} \cup (IF HasEmail(typed.role) THEN {typed.email} ELSE {}) :
       res' = universalLogin2(identifier, typed.password)
  /\ UNCHANGED <<identity, media, rawName, pending, typed>>

NextTrip ==
  \/ TypeCampus
  \/ TypeDistrict
  \/ TypeCommunity
  \/ TypeCell
  \/ TypeSuperAdmin
  \/ LoginAsTyped

SpecTrip == Init /\ [][NextTrip]_vars

\* the registrations with the two universal logins
NextLogin ==
  \/ Next
  \/ UniversalLogin

SpecLogin == Init /\ [][NextLogin]_vars

\* the registrations with every login route
NextLogins ==
  \/ NextLogin
  \/ CampusLogin
  \/ DistrictLogin
  \/ CommunityLogin
  \/ CellLogin
  \/ SuperAdminLogin

SpecLogins == Init /\ [][NextLogins]_vars

\* ------------------------------------------------------------------ media posts
Devices == { "d1", "d2" }
NoDevice == ""
MimeTypes == { <<"image", "png">>, <<"video", "mp4">> }
Comments == { <<>>, <<"c">> }
UploaderRoles == { "", "campus", "community" }

\* the uploader fields of an upload form: all of them well formed, or exactly
\* one of them blank or ill formed
OkUploader ==
  [uploaderId |-> 1, uploaderRole |-> "campus", uploaderName |-> <<"x">>,
   uploaderLogo |-> <<"x">>]
UploaderForms ==
  {OkUploader}
  \cup { [OkUploader EXCEPT !.uploaderId = v] : v \in RefInputs }
  \cup { [OkUploader EXCEPT !.uploaderRole = v] : v \in UploaderRoles }
  \cup { [OkUploader EXCEPT ![f] = v] : f \in {"uploaderName", "uploaderLogo"}, v \in Others }

FileLists == UNION { [1..n -> MimeTypes] : n \in 0..MaxFiles }

\* every upload form: any file list with any caption from any uploader form
UploadForms ==
  { [files |-> fl, comment |-> c, u |-> u] :
      fl \in FileLists, c \in Comments, u \in UploaderForms }

\* the upload requests that arrive: images only, as the asset store is set up to
\* admit (allowed_formats, resource_type: "image"), of every length, with one
\* caption, from every uploader form
UploadRequests ==
  { [files |-> [i \in 1..n |-> <<"image", "png">>], comment |-> <<"c">>, u |-> u] :
      n \in 0..MaxFiles, u \in UploaderForms }
PostIds == { BadId } \cup (1..(MaxPosts + 1))

\* multer with CloudinaryStorage: every file of the request is sent to the asset
\* store before the route handler runs, and file.path is the URL it got
storeFiles(files) ==
  [i \in 1..Len(files) |-> [mimetype |-> files[i], path |-> Cardinality(assets) + i]]

\* a storage engine that keeps no file
noPaths(files) == {}

pathsOf(files) == { files[i].path : i \in 1..Len(files) }

\* file.mimetype.startsWith("video")
isVideo(mimetype) == Head(mimetype) = "video"

\* ImageSchema: uploaderId casts to an ObjectId, uploaderRole is one of the enum
ImageValidates(doc) ==
  /\ isValid(doc.uploaderId)
  /\ doc.uploaderRole \in {"campus", "district", "cell"}
  /\ doc.uploaderName # <<>>
  /\ doc.uploaderLogo # <<>>

\* a document built without the caption of the request
newImageUncaptioned(file, at, comment, uploaderId, uploaderRole, uploaderName, uploaderLogo) ==
  [_id |-> 0, url |-> file.path, type |-> IF isVideo(file.mimetype) THEN "video" ELSE "image",
   comments |-> <<>>, likes |-> 0, likedBy |-> <<>>, createdAt |-> at,
   uploaderId |-> uploaderId, uploaderRole |-> uploaderRole,
   uploaderName |-> uploaderName, uploaderLogo |-> uploaderLogo]

\* new Image({...}); timestamps: true stamps createdAt when the document is saved
newImage(file, at, comment, uploaderId, uploaderRole, uploaderName, uploaderLogo) ==
  [_id |-> 0, url |-> file.path, type |-> IF isVideo(file.mimetype) THEN "video" ELSE "image",
   comments |-> comment, likes |-> 0, likedBy |-> <<>>, createdAt |-> at,
   uploaderId |-> uploaderId, uploaderRole |-> uploaderRole,
   uploaderName |-> uploaderName, uploaderLogo |-> uploaderLogo]

\* the createdAt of the newest stored post
latest ==
  IF Image = <<>> THEN 0
  ELSE CHOOSE t \in { Image[i].createdAt : i \in 1..Len(Image) } :
         \A i \in 1..Len(Image) : Image[i].createdAt <= t

\* the documents of docs whose position is in ok, inserted after the stored ones
inserted(docs, ok) ==
  [j \in 1..Cardinality(ok) |->
     LET i == CHOOSE x \in ok : Cardinality({ y \in ok : y < x }) = j - 1
     IN [docs[i] EXCEPT !._id = Len(Image) + j]]

\* the handler without the test of the uploader fields: a blank field is left
\* to the schema's validation
uploadUntested(files, comment, uploaderId, uploaderRole, uploaderName, uploaderLogo, failed, at) ==
  LET docs == [i \in 1..Len(files) |->
                 newImage(files[i], at, comment, uploaderId, uploaderRole,
                          uploaderName, uploaderLogo)]
      ok == { i \in 1..Len(docs) : ImageValidates(docs[i]) /\ i \notin failed }
      savedDocs == inserted(docs, ok)
  IN IF Cardinality(ok) < Len(docs)
     THEN Out([op |-> "upload", status |-> 500, message |-> "Upload failed"], savedDocs)
     ELSE Out([op |-> "upload", status |-> 200,
               message |-> "Files uploaded successfully", files |-> savedDocs],
              savedDocs)

\* the handler with its saves in one transaction: a rejected save undoes the others
uploadAllOrNothing(files, comment, uploaderId, uploaderRole, uploaderName, uploaderLogo, failed, at) ==
  IF uploaderId = NoRef \/ uploaderRole = "" \/ uploaderName = <<>> \/ uploaderLogo = <<>>
  THEN Out([op |-> "upload", status |-> 400, message |-> "Uploader info missing"], <<>>)
  ELSE LET docs == [i \in 1..Len(files) |->
                      newImage(files[i], at, comment, uploaderId, uploaderRole,
                               uploaderName, uploaderLogo)]
           ok == { i \in 1..Len(docs) : ImageValidates(docs[i]) /\ i \notin failed }
       IN IF Cardinality(ok) < Len(docs)
          THEN Out([op |-> "upload", status |-> 500, message |-> "Upload failed"], <<>>)
          ELSE Out([op |-> "upload", status |-> 200,
                    message |-> "Files uploaded successfully", files |-> inserted(docs, ok)],
                   inserted(docs, ok))

\* POST /api/upload after multer: one Image per file, every save() started under
\* one Promise.all; failed are the files whose save() the store rejects, at is
\* the time of the saves
upload(files, comment, uploaderId, uploaderRole, uploaderName, uploaderLogo, failed, at) ==
  IF uploaderId = NoRef \/ uploaderRole = "" \/ uploaderName = <<>> \/ uploaderLogo = <<>>
  THEN Out([op |-> "upload", status |-> 400, message |-> "Uploader info missing"], <<>>)
  ELSE LET docs == [i \in 1..Len(files) |->
                      newImage(files[i], at, comment, uploaderId, uploaderRole,
                               uploaderName, uploaderLogo)]
           ok == { i \in 1..Len(docs) : ImageValidates(docs[i]) /\ i \notin failed }
           savedDocs == inserted(docs, ok)
       IN IF Cardinality(ok) < Len(docs)
          THEN Out([op |-> "upload", status |-> 500, message |-> "Upload failed"], savedDocs)
          ELSE Out([op |-> "upload", status |-> 200,
                    message |-> "Files uploaded successfully", files |-> savedDocs],
                   savedDocs)

\* Image.find() without the sort: the documents in the order of their insertion
insertionOrder(docs) == { docs }

\* Image.find().sort({ createdAt: -1 }): the listings the sort can return; the
\* order of documents with equal createdAt is not determined
RECURSIVE sortCreatedAtDesc(_)
sortCreatedAtDesc(docs) ==
  IF docs = <<>> THEN { <<>> }
  ELSE LET newest == { i \in 1..Len(docs) :
                         \A j \in 1..Len(docs) : docs[j].createdAt <= docs[i].createdAt }
       IN UNION { { <<docs[i]>> \o rest : rest \in sortCreatedAtDesc(Remove(docs, i)) } :
                  i \in newest }

\* GET /api/uploads
getUploads == { [op |-> "uploads", status |-> 200, data |-> l] : l \in sortCreatedAtDesc(Image) }

PostReply(status, success, message, data) ==
  [op |-> "uploads/:id", status |-> status, success |-> success, message |-> message,
   data |-> data]

\* the handler with the ObjectId test of the like route in front of findById
getUploadIdTested(id) ==
  IF ~isValid(id) THEN PostReply(400, FALSE, "Invalid image ID", <<>>)
  ELSE IF findById(Image, id) = 0 THEN PostReply(404, FALSE, "Post not found", <<>>)
  ELSE LET image == Image[id] IN
       PostReply(200, TRUE, "",
                 <<[_id |-> image._id, url |-> image.url, comments |-> image.comments,
                    likes |-> image.likes, likedBy |-> image.likedBy,
                    createdAt |-> image.createdAt]>>)

\* GET /api/uploads/:id: findById throws a CastError for an id that is no
\* ObjectId, which the catch answers 500
getUpload(id) ==
  IF ~isValid(id) THEN PostReply(500, FALSE, "Server error", <<>>)
  ELSE IF findById(Image, id) = 0 THEN PostReply(404, FALSE, "Post not found", <<>>)
  ELSE LET image == Image[id] IN
       PostReply(200, TRUE, "",
                 <<[_id |-> image._id, url |-> image.url, comments |-> image.comments,
                    likes |-> image.likes, likedBy |-> image.likedBy,
                    createdAt |-> image.createdAt]>>)

Max(a, b) == IF a >= b THEN a ELSE b

\* a toggle whose unlike decrements likes and leaves likedBy as it was
likeToggleKeepDevice(image, deviceId) ==
  LET already == \E i \in 1..Len(image.likedBy) : image.likedBy[i] = deviceId IN
  IF already
  THEN [image EXCEPT !.likes = Max(0, image.likes - 1)]
  ELSE [image EXCEPT !.likes = image.likes + 1,
                     !.likedBy = Append(image.likedBy, deviceId)]

\* a toggle that also resets the caption of the post
likeToggleClearCaption(image, deviceId) ==
  LET already == \E i \in 1..Len(image.likedBy) : image.likedBy[i] = deviceId IN
  IF already
  THEN [image EXCEPT !.likes = Max(0, image.likes - 1), !.comments = <<>>,
                     !.likedBy = SelectSeq(image.likedBy, LAMBDA d : d # deviceId)]
  ELSE [image EXCEPT !.likes = image.likes + 1, !.comments = <<>>,
                     !.likedBy = Append(image.likedBy, deviceId)]

\* a toggle that adds the device whether or not it is there
likeToggleAddOnly(image, deviceId) ==
  [image EXCEPT !.likes = image.likes + 1,
                !.likedBy = Append(image.likedBy, deviceId)]

\* the toggle of POST /api/uploads/:id/like on the loaded document
likeToggle(image, deviceId) ==
  LET already == \E i \in 1..Len(image.likedBy) : image.likedBy[i] = deviceId IN
  IF already
  THEN [image EXCEPT !.likes = Max(0, image.likes - 1),
                     !.likedBy = SelectSeq(image.likedBy, LAMBDA d : d # deviceId)]
  ELSE [image EXCEPT !.likes = image.likes + 1,
                     !.likedBy = Append(image.likedBy, deviceId)]

LikeReply(status, message, likes, liked) ==
  [op |-> "like", status |-> status, message |-> message, likes |-> likes, liked |-> liked]

\* the handler replying with the likes it loaded
likeStaleReply(id, deviceId) ==
  IF deviceId = NoDevice
  THEN [res |-> LikeReply(400, "deviceId required", 0, FALSE), Image |-> Image]
  ELSE IF ~isValid(id)
  THEN [res |-> LikeReply(400, "Invalid image ID", 0, FALSE), Image |-> Image]
  ELSE IF findById(Image, id) = 0
  THEN [res |-> LikeReply(404, "Image not found", 0, FALSE), Image |-> Image]
  ELSE LET image == Image[id]
           already == \E i \in 1..Len(image.likedBy) : image.likedBy[i] = deviceId
           saved == likeToggle(image, deviceId)
       IN [res |-> LikeReply(200, "", image.likes, ~already),
           Image |-> [Image EXCEPT ![id] = saved]]

\* the handler without the ObjectId.isValid test: findById throws a CastError
likeNoIdTest(id, deviceId) ==
  IF deviceId = NoDevice
  THEN [res |-> LikeReply(400, "deviceId required", 0, FALSE), Image |-> Image]
  ELSE IF ~isValid(id)
  THEN [res |-> LikeReply(500, "Server error", 0, FALSE), Image |-> Image]
  ELSE IF findById(Image, id) = 0
  THEN [res |-> LikeReply(404, "Image not found", 0, FALSE), Image |-> Image]
  ELSE LET image == Image[id]
           already == \E i \in 1..Len(image.likedBy) : image.likedBy[i] = deviceId
           saved == likeToggle(image, deviceId)
       IN [res |-> LikeReply(200, "", saved.likes, ~already),
           Image |-> [Image EXCEPT ![id] = saved]]

\* POST /api/uploads/:id/like, run to completion: [res, Image]
like(id, deviceId) ==
  IF deviceId = NoDevice
  THEN [res |-> LikeReply(400, "deviceId required", 0, FALSE), Image |-> Image]
  ELSE IF ~isValid(id)
  THEN [res |-> LikeReply(400, "Invalid image ID", 0, FALSE), Image |-> Image]
  ELSE IF findById(Image, id) = 0
  THEN [res |-> LikeReply(404, "Image not found", 0, FALSE), Image |-> Image]
  ELSE LET image == Image[id]
           already == \E i \in 1..Len(image.likedBy) : image.likedBy[i] = deviceId
           saved == likeToggle(image, deviceId)
       IN [res |-> LikeReply(200, "", saved.likes, ~already),
           Image |-> [Image EXCEPT ![id] = saved]]

\* the saves of one request the store may reject
Failures(files) == SUBSET (1..Len(files))

\* POST /api/upload, multer and the handler run to completion on a store that
\* rejects no save; the saves of one request bear one createdAt, later than
\* that of every stored post
Upload ==
  /\ \E r \in UploadRequests :
       LET files == storeFiles(r.files)
           o == upload(files, r.comment, r.u.uploaderId, r.u.uploaderRole,
                       r.u.uploaderName, r.u.uploaderLogo, {}, latest + 1)
       IN /\ Len(Image) + Len(r.files) <= MaxPosts
          /\ Cardinality(assets) + Len(r.files) <= MaxAssets
          /\ assets' = assets \cup pathsOf(files)
          /\ Image' = Image \o o.docs
          /\ res' = o.res
  /\ UNCHANGED <<identity, rawName, pending, received, reads, typed>>

Like ==
  /\ \E id \in PostIds, deviceId \in Devices \cup {NoDevice} :
       LET o == like(id, deviceId) IN
       /\ Image' = o.Image
       /\ res' = o.res
  /\ UNCHANGED <<identity, rawName, pending, assets, received, reads, typed>>

GetUploads ==
  /\ \E r \in getUploads : res' = r
  /\ UNCHANGED <<identity, media, rawName, pending, typed>>

GetUpload ==
  /\ \E id \in PostIds : res' = getUpload(id)
  /\ UNCHANGED <<identity, media, rawName, pending, typed>>

NextMedia ==
  \/ Upload
  \/ Like
  \/ GetUploads

SpecMedia == Init /\ [][NextMedia]_vars

\* ------------------------------------------------------------------ upload, step by step
\* the upload requests that arrive while others wait: of every length, from a
\* well-formed uploader, one without a logo and one whose role the schema rejects
ReceivedRequests ==
  { r \in UploadRequests :
      r.u \in { OkUploader, [OkUploader EXCEPT !.uploaderLogo = <<>>],
                [OkUploader EXCEPT !.uploaderRole = "community"] } }

\* upload.array("files"): multer sends the files of a request to the asset store,
\* then passes the request with req.files to the route handler
ReceiveUpload ==
  /\ Len(received) < MaxReceived
  /\ \E r \in ReceivedRequests :
       LET files == storeFiles(r.files) IN
       /\ Cardinality(assets) + Len(r.files) <= MaxAssets
       /\ assets' = assets \cup pathsOf(files)
       /\ received' = Append(received, [files |-> files, comment |-> r.comment, u |-> r.u])
  /\ UNCHANGED <<identity, rawName, pending, Image, res, reads, typed>>

\* the route handler on a received request; the store may reject any of its saves
HandleUpload ==
  /\ \E k \in 1..Len(received) :
       LET r == received[k] IN
       \E failed \in Failures(r.files) :
         LET o == upload(r.files, r.comment, r.u.uploaderId, r.u.uploaderRole,
                         r.u.uploaderName, r.u.uploaderLogo, failed, latest + 1)
         IN /\ Len(Image) + Len(o.docs) <= MaxPosts
            /\ Image' = Image \o o.docs
            /\ res' = o.res
            /\ received' = Remove(received, k)
  /\ UNCHANGED <<identity, rawName, pending, assets, reads, typed>>

NextUpload ==
  \/ ReceiveUpload
  \/ HandleUpload

SpecUpload == Init /\ [][NextUpload]_vars

\* ------------------------------------------------------------------ interleaved like toggles
\* reads is the log of the like requests that loaded a post. An entry is in
\* flight, between "await Image.findById(id)" and "await image.save()", while
\* its status is 0; it holds the document the request loaded and what has been
\* written to that post since: "none", "twin" (one write, by a request of the
\* same device that had loaded the same document), "other" (one other write)
\* or "many". When the request completes the entry takes its reply's status and
\* the post as stored afterwards.
InFlightLike(id, deviceId) ==
  [id |-> id, deviceId |-> deviceId, image |-> Image[id], since |-> "none",
   status |-> 0, stored |-> Image[id]]

\* image.save() writing the whole loaded document back, whatever is stored
saveLikeOverwrite(e) ==
  LET local == likeToggle(e.image, e.deviceId)
      already == \E i \in 1..Len(e.image.likedBy) : e.image.likedBy[i] = e.deviceId
  IN [res |-> LikeReply(200, "", local.likes, ~already),
      Image |-> [Image EXCEPT ![e.id] = local],
      written |-> TRUE]

\* image.save() of the toggled document. Mongoose sends the changes only: a
\* like is { $set: { likes }, $push: { likedBy } } on the stored document; an
\* unlike replaces the array, { $set: { likes, likedBy } }, which is sent with
\* the version the document was loaded at and throws a VersionError when the
\* post has been written since
saveLike(e) ==
  LET local == likeToggle(e.image, e.deviceId)
      already == \E i \in 1..Len(e.image.likedBy) : e.image.likedBy[i] = e.deviceId
  IN IF already /\ e.since # "none"
     THEN [res |-> LikeReply(500, "Server error", 0, FALSE), Image |-> Image,
           written |-> FALSE]
     ELSE IF already
     THEN [res |-> LikeReply(200, "", local.likes, FALSE),
           Image |-> [Image EXCEPT ![e.id].likes = local.likes,
                                   ![e.id].likedBy = local.likedBy],
           written |-> TRUE]
     ELSE [res |-> LikeReply(200, "", local.likes, TRUE),
           Image |-> [Image EXCEPT ![e.id].likes = local.likes,
                                   ![e.id].likedBy = Append(@, e.deviceId)],
           written |-> TRUE]

\* the handler of a request it does not refuse, up to the document it loads
ReadLike ==
  /\ Len(reads) < MaxReads
  /\ \E id \in PostIds, deviceId \in Devices :
       /\ isValid(id) /\ findById(Image, id) # 0
       /\ reads' = Append(reads, InFlightLike(id, deviceId))
  /\ UNCHANGED <<identity, rawName, pending, Image, assets, received, res, typed>>

\* the rest of the handler for one request in flight
WriteLike ==
  /\ \E k \in 1..Len(reads) :
       LET e == reads[k]
           o == saveLike(e)
       IN /\ e.status = 0
          /\ Image' = o.Image
          /\ res' = o.res
          /\ reads' = [j \in 1..Len(reads) |->
                         IF j = k
                         THEN [e EXCEPT !.status = o.res.status, !.stored = o.Image[e.id]]
                         ELSE IF o.written /\ reads[j].status = 0 /\ reads[j].id = e.id
                         THEN [reads[j] EXCEPT
                                 !.since = IF @ # "none" THEN "many"
                                           ELSE IF reads[j].deviceId = e.deviceId
                                                   /\ reads[j].image = e.image
                                           THEN "twin" ELSE "other"]
                         ELSE reads[j]]
  /\ UNCHANGED <<identity, rawName, pending, assets, received, typed>>

\* the first upload of a single file: the post the toggles race on
UploadFirst ==
  /\ Image = <<>>
  /\ \E r \in UploadRequests :
       LET files == storeFiles(r.files)
           o == upload(files, r.comment, r.u.uploaderId, r.u.uploaderRole,
                       r.u.uploaderName, r.u.uploaderLogo, {}, latest + 1)
       IN /\ Len(r.files) = 1
          /\ Cardinality(assets) + Len(r.files) <= MaxAssets
          /\ assets' = assets \cup pathsOf(files)
          /\ Image' = Image \o o.docs
          /\ res' = o.res
  /\ UNCHANGED <<identity, rawName, pending, received, reads, typed>>

NextRace ==
  \/ UploadFirst
  \/ ReadLike
  \/ WriteLike

SpecRace == Init /\ [][NextRace]_vars

\* ------------------------------------------------------------------ interleaved registration
\* A registration handler awaits its uniqueness lookup and, later, its save();
\* other requests run in between.  pending holds the requests that have passed
\* the lookup and not yet saved.
Await(p, name) ==
  IF p.ok
  THEN /\ pending' = Append(pending, [p |-> p, raw |-> name])
       /\ res' = res
  ELSE /\ pending' = pending
       /\ res' = p.res

InFlight == TotalRecords + Len(pending)

LookupCampus ==
  /\ InFlight < MaxRecords /\ Len(pending) < MaxPending
  /\ \E r \in CampusRequests :
       Await(campusPrepare(r.name, r.address, r.email, r.password), r.name)
  /\ UNCHANGED <<identity, media, rawName, typed>>

LookupDistrict ==
  /\ InFlight < MaxRecords /\ Len(pending) < MaxPending
  /\ \E r \in DistrictRequests :
       Await(districtPrepare(r.name, r.campus, r.email, r.password), r.name)
  /\ UNCHANGED <<identity, media, rawName, typed>>

LookupCommunity ==
  /\ InFlight < MaxRecords /\ Len(pending) < MaxPending
  /\ \E r \in CommunityRequests :
       Await(communityPrepare(r.name, r.form.district, r.form.leader, r.form.leaderPhone,
                              r.password), r.name)
  /\ UNCHANGED <<identity, media, rawName, typed>>

LookupCell ==
  /\ InFlight < MaxRecords /\ Len(pending) < MaxPending
  /\ \E r \in CellRequests :
       Await(cellPrepare(r.name, r.form.campus, r.form.district, r.form.community,
                         r.form.address, r.form.leader, r.form.phone, r.email, r.password),
             r.name)
  /\ UNCHANGED <<identity, media, rawName, typed>>

LookupSuperAdmin ==
  /\ InFlight < MaxRecords /\ Len(pending) < MaxPending
  /\ \E r \in SuperAdminRequests :
       Await(superAdminPrepare(r.name, r.password), r.name)
  /\ UNCHANGED <<identity, media, rawName, typed>>

\* the save() of one pending request completes
Save ==
  /\ \E i \in 1..Len(pending) :
       LET e == pending[i]
           o == Persist(e.p)
           role == e.p.role
           grow(r, coll) == IF r = role THEN coll \o o.docs ELSE coll
       IN /\ Campus' = grow("campus", Campus)
          /\ District' = grow("district", District)
          /\ Community' = grow("community", Community)
          /\ Cell' = grow("cell", Cell)
          /\ SuperAdmin' = grow("superadmin", SuperAdmin)
          /\ res' = o.res
          /\ rawName' = IF o.docs = <<>> THEN rawName
                        ELSE [rawName EXCEPT ![role] = Append(@, e.raw)]
          /\ pending' = Remove(pending, i)
  /\ UNCHANGED <<media, typed>>

NextConc ==
  \/ LookupCampus
  \/ LookupDistrict
  \/ LookupCommunity
  \/ LookupCell
  \/ LookupSuperAdmin
  \/ Save

SpecConc == Init /\ [][NextConc]_vars

\* ------------------------------------------------------------------ uploads and reads
NextPost ==
  \/ Upload
  \/ GetUploads
  \/ GetUpload

SpecPost == Init /\ [][NextPost]_vars

\* ------------------------------------------------------------------ one post, read by id
NextRead ==
  \/ UploadFirst
  \/ Like
  \/ GetUpload

SpecRead == Init /\ [][NextRead]_vars

\* ------------------------------------------------------------------ posts beside records
\* a registration, uploads and toggles over one store
\* the first registration of a super admin: the record the posts stand beside
RegisterFirst ==
  /\ TotalRecords = 0
  /\ RegisterSuperAdmin

NextFrame ==
  \/ RegisterFirst
  \/ Upload
  \/ Like

SpecFrame == Init /\ [][NextFrame]_vars

\* ------------------------------------------------------------------ properties
AllRoles == { Roles[k] : k \in 1..Len(Roles) }

\* position of a role in the cascade order
Rank(role) == CHOOSE k \in 1..Len(Roles) : Roles[k] = role

\* C1: after any sequence of uploads and like toggles, each run to completion,
\* every stored post has likes equal to the number of entries of likedBy.
LikeCountInvariant ==
  \A i \in 1..Len(Image) : Image[i].likes = Len(Image[i].likedBy)

\* an unlike has just been served and some post still carries two likes
LikeCountWitness ==
  /\ res.op = "like" /\ res.status = 200 /\ res.liked = FALSE
  /\ \E i \in 1..Len(Image) : Image[i].likes = 2

\* C2: under any interleaving of registration lookups and saves, no two
\* records of one collection share a normalizedName, and no two records of one
\* collection share an email.
UniquePerCollection ==
  \A role \in AllRoles :
    LET c == Coll(role) IN
    \A i, j \in 1..Len(c) :
      i # j => /\ c[i].normalizedName # c[j].normalizedName
               /\ HasEmail(role) => c[i].email # c[j].email

\* C3: every stored record's normalizedName is the lowercased,
\* whitespace-collapsed, trimmed raw name of its registration and the lowercased
\* stored name, and the pre-save hook maps the stored record to itself.
NormalizedNameDerived ==
  \A role \in AllRoles :
    LET c == Coll(role) IN
    /\ Len(rawName[role]) = Len(c)
    /\ \A i \in 1..Len(c) :
         /\ c[i].normalizedName = toLowerCase(collapseWhitespace(trim(rawName[role][i])))
         /\ c[i].normalizedName = toLowerCase(c[i].name)
         /\ preSave(c[i]) = c[i]

\* a record registered from a name with a run of whitespace, next to one
\* whose display name keeps an upper-case letter
NormalizedNameWitness ==
  /\ \E role \in AllRoles : \E i \in 1..Len(Coll(role)) :
       /\ i <= Len(rawName[role])
       /\ rawName[role][i] = <<"a", TAB, SP, "b">>
       /\ Coll(role)[i].name = <<"a", SP, "b">>
  /\ \E role \in AllRoles : \E i \in 1..Len(Coll(role)) :
       /\ Coll(role)[i].name = <<"A">>
       /\ Coll(role)[i].normalizedName = <<"a">>

\* the request's name or email, normalized as the handlers normalize them,
\* equals that of a record stored in the collection of role
Duplicates(role, name, email) ==
  \E i \in 1..Len(Coll(role)) :
    \/ Coll(role)[i].normalizedName = toLowerCase(collapseWhitespace(trim(name)))
    \/ HasEmail(role) /\ Coll(role)[i].email = toLowerCase(trim(email))

Conflict(op, message) == Out(Reply(op, 400, message), <<>>)

\* the outcomes of every request that duplicates a stored record and, when
\* complete is TRUE, has every required field filled in (for a District, with
\* the _id of a stored Campus): each is the 400 conflict reply with no document
DuplicateOutcomes(complete) ==
  /\ \A r \in CampusRequests :
       /\ Duplicates("campus", r.name, r.email)
       /\ complete => r.name # <<>> /\ r.address # <<>> /\ r.email # <<>>
                      /\ r.password # <<>>
       => campusRegister(r.name, r.address, r.email, r.password)
            = Conflict("campus/register", "Campus already exists")
  /\ \A r \in DistrictRequests :
       /\ Duplicates("district", r.name, r.email)
       /\ complete => r.name # <<>> /\ r.email # <<>> /\ r.password # <<>>
                      /\ r.campus \in 1..Len(Campus)
       => districtRegister(r.name, r.campus, r.email, r.password)
            = Conflict("district/register", "District already exists")
  /\ \A r \in CommunityRequests :
       /\ Duplicates("community", r.name, <<>>)
       /\ complete => r.name # <<>> /\ r.form.district # NoRef /\ r.form.leader # <<>>
                      /\ r.form.leaderPhone # <<>> /\ r.password # <<>>
       => communityRegister(r.name, r.form.district, r.form.leader, r.form.leaderPhone,
                            r.password)
            = Conflict("communities", "Community already exists")
  /\ \A r \in CellRequests :
       /\ Duplicates("cell", r.name, r.email)
       /\ complete => r.name # <<>> /\ r.form.campus # NoRef /\ r.form.district # NoRef
                      /\ r.form.community # NoRef /\ r.form.address # <<>>
                      /\ r.form.leader # <<>> /\ r.form.phone # <<>>
                      /\ r.email # <<>> /\ r.password # <<>>
       => cellRegister(r.name, r.form.campus, r.form.district, r.form.community,
                       r.form.address, r.form.leader, r.form.phone, r.email, r.password)
            = Conflict("cell/register", "Cell already exists")
  /\ \A r \in SuperAdminRequests :
       /\ Duplicates("superadmin", r.name, <<>>)
       /\ complete => r.name # <<>> /\ r.password # <<>>
       => superAdminRegister(r.name, r.password)
            = Conflict("superadmin/register", "Super Admin already exists")

\* C4: a registration request with every required field filled in (for a
\* District, with the _id of a stored Campus) whose normalized email or
\* normalized name equals that of a record stored in the same collection gets
\* the 400 "already exists" reply and adds no document.
DuplicateRejected == DuplicateOutcomes(TRUE)

\* C4 as stated, for every request: any request that duplicates a stored
\* record gets the 400 "already exists" reply and adds no document.
DuplicateRejectedAnyRequest == DuplicateOutcomes(FALSE)

\* a complete Campus request that repeats a stored email under a new name has
\* just been refused
DuplicateRejectedWitness ==
  \E r \in CampusRequests :
    /\ r.name # <<>> /\ r.address # <<>> /\ r.email # <<>> /\ r.password # <<>>
    /\ \E i \in 1..Len(Campus) :
         /\ Campus[i].email = toLowerCase(trim(r.email))
         /\ Campus[i].normalizedName # toLowerCase(collapseWhitespace(trim(r.name)))
    /\ res = Reply("campus/register", 400, "Campus already exists")
    /\ res = campusRegister(r.name, r.address, r.email, r.password).res

\* a stored record answers to the identifier when its email, where the
\* collection has one, or its normalizedName equals trim + lowercase of it
Answers(role, r, raw) ==
  \/ HasEmail(role) /\ r.email = toLowerCase(trim(raw))
  \/ r.normalizedName = toLowerCase(trim(raw))

AnswerSet(role, raw) == { i \in 1..Len(Coll(role)) : Answers(role, Coll(role)[i], raw) }

\* C5: the cascade resolves to the first collection, in the order Campus,
\* District, Community, Cell, SuperAdmin, that has a record answering to the
\* identifier, and a successful login reports that collection's role.
CascadeOrder ==
  \A raw \in Identifiers :
    LET found == cascade2(normalizeIdentifier(raw)) IN
    \A k \in 1..Len(Roles) :
      /\ AnswerSet(Roles[k], raw) # {}
      /\ \A j \in 1..(k - 1) : AnswerSet(Roles[j], raw) = {}
      => /\ found.role = Roles[k]
         /\ found.user \in AnswerSet(Roles[k], raw)
         /\ \A password \in LoginPasswords :
              LET r == universalLogin2(raw, password) IN
              r.status = 200 => r.role = Roles[k]

\* a login that resolved to a Campus while a District answers to the same
\* identifier
CascadeOrderWitness ==
  \E raw \in Identifiers, password \in LoginPasswords :
    /\ res = universalLogin2(raw, password)
    /\ res.status = 200 /\ res.role = "campus"
    /\ AnswerSet("district", raw) # {}

\* the login with identifier raw and the stored password of record i of role
\* succeeds, for that role and that record
LogsIn(role, i, raw) ==
  LET r == universalLogin2(raw, Coll(role)[i].password) IN
  r.status = 200 /\ r.role = role /\ r.user.id = Coll(role)[i]._id

\* no other record of the same collection and no record of an earlier
\* collection answers to the identifier
Unshadowed(role, i, raw) ==
  /\ AnswerSet(role, raw) \subseteq {i}
  /\ \A j \in 1..(Rank(role) - 1) : AnswerSet(Roles[j], raw) = {}

\* C6: a login with a stored record's display name or email and its stored
\* password succeeds with the role and id of that record, provided no other
\* record of its collection and no record of a collection earlier in the
\* cascade answers to that identifier.
OwnCredentialsLogIn ==
  \A role \in AllRoles : \A i \in 1..Len(Coll(role)) :
    LET d == Coll(role)[i] IN
    /\ Unshadowed(role, i, d.name) => LogsIn(role, i, d.name)
    /\ HasEmail(role) /\ Unshadowed(role, i, d.email) => LogsIn(role, i, d.email)

\* C6 as stated, for every stored record: a login with its display name or
\* its email and its stored password succeeds and reports its role.
OwnCredentialsAlwaysLogIn ==
  \A role \in AllRoles : \A i \in 1..Len(Coll(role)) :
    LET d == Coll(role)[i]
        byName == universalLogin2(d.name, d.password)
        byEmail == universalLogin2(d.email, d.password)
    IN /\ byName.status = 200 /\ byName.role = role
       /\ HasEmail(role) => byEmail.status = 200 /\ byEmail.role = role

\* a record of a collection after Campus has just logged in by its display
\* name, which differs from its lookup key, while a Campus is stored
OwnCredentialsWitness ==
  \E role \in AllRoles \ {"campus"} : \E i \in 1..Len(Coll(role)) :
    /\ Len(Campus) >= 1
    /\ Coll(role)[i].name # Coll(role)[i].normalizedName
    /\ Unshadowed(role, i, Coll(role)[i].name)
    /\ res = universalLogin2(Coll(role)[i].name, Coll(role)[i].password)
    /\ res.status = 200

\* C7: in each collection a record is selected by the probe of an identifier
\* exactly when its email (Campus, District, Cell) or its normalizedName equals
\* trim + lowercase of the identifier, and a login resolves to such a record.
ProbeSelects ==
  \A raw \in Identifiers :
    /\ \A role \in AllRoles : \A i \in 1..Len(Coll(role)) :
         Probe(role, Coll(role)[i], normalizeIdentifier(raw))
           <=> \/ HasEmail(role) /\ Coll(role)[i].email = toLowerCase(trim(raw))
               \/ Coll(role)[i].normalizedName = toLowerCase(trim(raw))
    /\ LET found == cascade2(normalizeIdentifier(raw)) IN
       found.user # 0 =>
         LET d == Coll(found.role)[found.user] IN
         \/ HasEmail(found.role) /\ d.email = toLowerCase(trim(raw))
         \/ d.normalizedName = toLowerCase(trim(raw))

\* C7 as stated: a record is selected exactly when its email equals the
\* identifier as supplied or its normalizedName equals trim + lowercase of it.
ProbeSelectsByRawEmail ==
  \A raw \in Identifiers : \A role \in AllRoles : \A i \in 1..Len(Coll(role)) :
    Probe(role, Coll(role)[i], normalizeIdentifier(raw))
      <=> \/ HasEmail(role) /\ Coll(role)[i].email = raw
          \/ Coll(role)[i].normalizedName = toLowerCase(trim(raw))

\* a login by an email typed in upper case with a trailing space has just
\* succeeded for a record whose name is not that identifier
ProbeSelectsWitness ==
  \E password \in LoginPasswords :
    /\ res = universalLogin2(<<"E", SP>>, password)
    /\ res.status = 200
    /\ res.user.email = <<"e">>
    /\ toLowerCase(res.user.name) # <<"e">>

\* C8: a login with a non-empty identifier and a non-empty password is
\* answered 404 exactly when no record of the five collections answers to the
\* identifier; no login is answered 404 while such a record is stored.
NotFoundIffNoRecord ==
  \A raw \in Identifiers :
    LET none == \A role \in AllRoles : AnswerSet(role, raw) = {} IN
    \A password \in LoginPasswords :
      LET r == universalLogin2(raw, password) IN
      /\ r.status = 404 => none
      /\ raw # <<>> /\ password # <<>> /\ none
           => r = LoginReply(404, "User not found", "", NoUser)

\* C8 as stated, for every login: 404 exactly when no record answers.
NotFoundIffNoRecordAnyRequest ==
  \A raw \in Identifiers, password \in LoginPasswords :
    universalLogin2(raw, password).status = 404
      <=> \A role \in AllRoles : AnswerSet(role, raw) = {}

\* a 404 for an identifier no stored record answers to, and, in the same
\* store, an identifier that a SuperAdmin alone answers to
NotFoundWitness ==
  /\ res.status = 404
  /\ \E raw \in Identifiers, password \in LoginPasswords :
       /\ raw # <<>> /\ password # <<>>
       /\ res = universalLogin2(raw, password)
       /\ \A role \in AllRoles : AnswerSet(role, raw) = {}
  /\ \E raw \in Identifiers :
       /\ AnswerSet("superadmin", raw) # {}
       /\ \A role \in AllRoles \ {"superadmin"} : AnswerSet(role, raw) = {}

\* C9: when the record the cascade resolves to has a stored password that is
\* not exactly the supplied one, the login is answered 400 with no role and no
\* user data ("Invalid password" for a non-empty password), whatever records
\* of later collections answer to the identifier.
WrongPasswordRejected ==
  \A raw \in Identifiers :
    LET found == cascade2(normalizeIdentifier(raw)) IN
    found.user # 0 =>
      \A password \in LoginPasswords :
        LET r == universalLogin2(raw, password) IN
        Coll(found.role)[found.user].password # password
          => /\ r.status = 400 /\ r.role = "" /\ r.user = NoUser
             /\ password # <<>> => r.message = "Invalid password"

\* a login has just been refused on the password of the first record, while a
\* record of a later collection answers to the identifier with that password
WrongPasswordWitness ==
  \E raw \in Identifiers, password \in LoginPasswords :
    /\ res = universalLogin2(raw, password)
    /\ res.message = "Invalid password"
    /\ \E k \in (Rank(cascade2(normalizeIdentifier(raw)).role) + 1)..Len(Roles) :
         \E i \in AnswerSet(Roles[k], raw) : Coll(Roles[k])[i].password = password

\* C10: a successful login returns the name of the record the cascade resolved
\* to as it is stored, letter case included, and that record's _id.
LoginReturnsStoredName ==
  \A raw \in Identifiers :
    LET found == cascade2(normalizeIdentifier(raw)) IN
    \A password \in LoginPasswords :
      LET r == universalLogin2(raw, password) IN
      r.status = 200 =>
        /\ found.user \in 1..Len(Coll(found.role))
        /\ r.role = found.role
        /\ r.user.id = Coll(found.role)[found.user]._id
        /\ r.user.id = found.user
        /\ r.user.name = Coll(found.role)[found.user].name
        /\ Coll(found.role)[found.user].password = password

\* a login by a lower-case identifier has just returned an upper-case name
LoginReturnsStoredNameWitness ==
  \E password \in LoginPasswords :
    /\ res = universalLogin2(<<"a">>, password)
    /\ res.status = 200
    /\ res.user.name = <<"A">>

\* the device is among the post's likedBy
LikedBy(image, deviceId) == \E i \in 1..Len(image.likedBy) : image.likedBy[i] = deviceId

\* C11: a like toggle by a device on a stored post removes the device and
\* lowers likes by one (not below 0) when the device was in likedBy, and
\* otherwise adds it and raises likes by one; the reply carries the stored
\* likes and whether the device is in likedBy afterwards.
ToggleSemantics ==
  \A id \in 1..Len(Image), d \in Devices :
    LET before == Image[id]
        o == like(id, d)
        after == o.Image[id]
    IN /\ LikedBy(before, d) =>
            /\ ~LikedBy(after, d)
            /\ after.likes = IF before.likes >= 1 THEN before.likes - 1 ELSE 0
       /\ ~LikedBy(before, d) =>
            /\ LikedBy(after, d)
            /\ after.likes = before.likes + 1
       /\ o.res.status = 200
       /\ o.res.likes = after.likes
       /\ o.res.liked = LikedBy(after, d)
       /\ \A j \in 1..Len(Image) : j # id => o.Image[j] = Image[j]

\* an unlike has just been answered with the one like another device holds
ToggleSemanticsWitness ==
  /\ res = LikeReply(200, "", 1, FALSE)
  /\ \E id \in 1..Len(Image), d \in Devices :
       /\ Image[id].likes = 1 /\ ~LikedBy(Image[id], d)
       /\ like(id, d).res = LikeReply(200, "", 2, TRUE)

ToggleRejections ==
  \A id \in PostIds :
    /\ like(id, NoDevice) = [res |-> LikeReply(400, "deviceId required", 0, FALSE),
                             Image |-> Image]
    /\ \A d \in Devices :
         /\ ~isValid(id) =>
              like(id, d) = [res |-> LikeReply(400, "Invalid image ID", 0, FALSE),
                             Image |-> Image]
         /\ isValid(id) /\ id \notin 1..Len(Image) =>
              like(id, d) = [res |-> LikeReply(404, "Image not found", 0, FALSE),
                             Image |-> Image]

\* C13 as stated: 400 without a deviceId, and 404 for every id that
\* identifies no stored post.
ToggleRejectionsAnyId ==
  \A id \in PostIds :
    /\ like(id, NoDevice).res.status = 400 /\ like(id, NoDevice).Image = Image
    /\ \A d \in Devices :
         id \notin 1..Len(Image) =>
           like(id, d).res.status = 404 /\ like(id, d).Image = Image

\* a toggle on an id past the last stored post has just been answered 404
\* while a liked post is stored
ToggleRejectionsWitness ==
  /\ res = LikeReply(404, "Image not found", 0, FALSE)
  /\ \E i \in 1..Len(Image) : Image[i].likes >= 1

\* the times at which the saves of an arriving upload can be stamped
SaveTimes == { latest, latest + 1 }

\* C16: an upload of N files with one caption whose saves the store accepts
\* is answered 200 exactly when the schema accepts the uploader fields, and
\* then creates exactly N posts, one per file in the order of the files, each
\* with that caption, likes 0 and an empty likedBy, under ids no stored post
\* has.
UploadCreatesOnePerFile ==
  \A f \in UploadForms, at \in SaveTimes :
    LET files == storeFiles(f.files)
        o == upload(files, f.comment, f.u.uploaderId, f.u.uploaderRole,
                    f.u.uploaderName, f.u.uploaderLogo, {}, at)
    IN /\ f.u = OkUploader => o.res.status = 200
       /\ o.res.status = 200 =>
            /\ Len(o.docs) = Len(f.files)
            /\ o.res.files = o.docs
            /\ \A i \in 1..Len(o.docs) :
                 /\ o.docs[i].comments = f.comment
                 /\ o.docs[i].likes = 0
                 /\ o.docs[i].likedBy = <<>>
                 /\ o.docs[i].url = files[i].path
                 /\ o.docs[i]._id = Len(Image) + i
            /\ SubSeq(Image \o o.docs, 1, Len(Image)) = Image

\* an upload of two files has just been answered 200 and its two posts are
\* the stored ones
UploadCreatesWitness ==
  /\ res.op = "upload" /\ res.status = 200
  /\ Len(res.files) = 2
  /\ Image = res.files
  /\ \A i \in 1..2 : Image[i].comments = <<"c">> /\ Image[i].likes = 0

\* the upload forms with a missing uploader id, role, name or logo
BlankUploaderForms ==
  { f \in UploadForms :
      \/ f.u.uploaderId = NoRef \/ f.u.uploaderRole = ""
      \/ f.u.uploaderName = <<>> \/ f.u.uploaderLogo = <<>> }

\* C17: an upload whose uploader id, role, name or logo is missing is answered
\* 400 and creates no post, whatever the number of files and whether the store
\* would accept or reject their saves.
UploaderRequired ==
  \A f \in BlankUploaderForms, at \in SaveTimes :
    LET files == storeFiles(f.files) IN
    \A failed \in { {}, 1..Len(files) } :
      upload(files, f.comment, f.u.uploaderId, f.u.uploaderRole,
             f.u.uploaderName, f.u.uploaderLogo, failed, at)
        = Out([op |-> "upload", status |-> 400, message |-> "Uploader info missing"], <<>>)

\* an upload of two files has just been answered 400: its files are in the
\* asset store and no post is stored
UploaderRequiredWitness ==
  /\ res = [op |-> "upload", status |-> 400, message |-> "Uploader info missing"]
  /\ Cardinality(assets) = 2
  /\ Image = <<>>

\* C20: a listing of GET /api/uploads holds every stored post exactly once and
\* no post after one created strictly earlier; a like toggle leaves the
\* listings' orders of posts as they were.
ListingNewestFirst ==
  /\ \A r \in getUploads :
       /\ r.status = 200
       /\ Len(r.data) = Len(Image)
       /\ \A i \in 1..Len(Image) :
            Cardinality({ k \in 1..Len(r.data) : r.data[k] = Image[i] }) = 1
       /\ \A k, l \in 1..Len(r.data) :
            k < l => r.data[k].createdAt >= r.data[l].createdAt
  /\ \A id \in PostIds, d \in Devices \cup {NoDevice} :
       { [k \in 1..Len(l) |-> l[k]._id] : l \in sortCreatedAtDesc(like(id, d).Image) }
         = { [k \in 1..Len(r.data) |-> r.data[k]._id] : r \in getUploads }

\* a listing has just been served with the newer post first and the older,
\* liked post second
ListingNewestFirstWitness ==
  /\ res.op = "uploads" /\ res.status = 200
  /\ Len(res.data) = 2
  /\ res.data[1]._id = 2 /\ res.data[2]._id = 1
  /\ res.data[1].createdAt > res.data[2].createdAt
  /\ res.data[2].likes = 1

\* the upload forms of two or more files from a well-formed uploader
MultiFileForms == { f \in UploadForms : Len(f.files) >= 2 /\ f.u = OkUploader }

\* C18: when the store rejects the save of one or more files of a multi-file
\* upload, the request is answered 500 and the posts of the files whose save
\* was accepted are stored, after the unchanged earlier posts.
PartialUploadKept ==
  \A f \in MultiFileForms :
    LET files == storeFiles(f.files) IN
    \A failed \in Failures(files) \ { {} } :
      LET o == upload(files, f.comment, f.u.uploaderId, f.u.uploaderRole,
                      f.u.uploaderName, f.u.uploaderLogo, failed, latest + 1)
          kept == (1..Len(files)) \ failed
      IN /\ o.res = [op |-> "upload", status |-> 500, message |-> "Upload failed"]
         /\ Len(o.docs) = Cardinality(kept)
         /\ { o.docs[j].url : j \in 1..Len(o.docs) } = { files[i].path : i \in kept }
         /\ \A j \in 1..Len(o.docs) : o.docs[j].comments = f.comment
         /\ SubSeq(Image \o o.docs, 1, Len(Image)) = Image

\* an upload of two files has just been answered 500 and the post of its
\* second file is stored
PartialUploadWitness ==
  /\ res = [op |-> "upload", status |-> 500, message |-> "Upload failed"]
  /\ received = <<>>
  /\ assets = {1, 2}
  /\ Len(Image) = 1 /\ Image[1].url = 2

\* C19: the asset of every post was in the asset store before the post was
\* written: a step that adds posts adds only posts whose url the store already
\* held before the step.
AssetStoredFirst ==
  [][\A i \in 1..Len(Image') : i > Len(Image) => Image'[i].url \in assets]_vars

\* two posts written by two requests, the second one's files stored while the
\* first one's post was already written
AssetStoredFirstWitness ==
  /\ res.op = "upload" /\ res.status = 200
  /\ Len(Image) = 2
  /\ Image[1].createdAt < Image[2].createdAt
  /\ \A i \in 1..2 : Image[i].url \in assets

\* the completed like requests that raced with one other request of the same
\* device on the same post: both loaded the same document and the other wrote
\* first
SameDeviceRaces ==
  { k \in 1..Len(reads) : reads[k].status # 0 /\ reads[k].since = "twin" }

NoDuplicateDevices ==
  \A i \in 1..Len(Image) :
    \A j, k \in 1..Len(Image[i].likedBy) :
      j # k => Image[i].likedBy[j] # Image[i].likedBy[k]

RawSelected(role, identifier) ==
  { k \in 1..Len(Coll(role)) : ProbeRaw(role, Coll(role)[k], identifier) }

\* the records of a collection the filter of /api/universal-login2 selects
NormSelected(role, identifier) ==
  { k \in 1..Len(Coll(role)) : Probe(role, Coll(role)[k], normalizeIdentifier(identifier)) }

\* C30: /api/universal-login and /api/universal-login2 both answer 400 when a
\* field is empty; /api/universal-login never answers with a Community or a
\* SuperAdmin; and the two give the same status, message, role and user for an
\* (identifier, password) whenever the filter on the identifier as supplied
\* selects, in Campus, District and Cell, the records the filter on the
\* normalized identifier selects, and no Community or SuperAdmin record has the
\* normalized identifier as its normalizedName.
LoginsAgree ==
  \A identifier \in Identifiers, password \in LoginPasswords :
    LET a == universalLogin(identifier, password)
        b == universalLogin2(identifier, password)
    IN /\ (identifier = <<>> \/ password = <<>>) =>
            /\ a.status = 400 /\ b.status = 400
            /\ a.message = "All fields are required" /\ b.message = a.message
       /\ a.role \in {"", "campus", "district", "cell"}
       /\ ( /\ \A role \in {"campus", "district", "cell"} :
                 RawSelected(role, identifier) = NormSelected(role, identifier)
            /\ \A role \in {"community", "superadmin"} :
                 NormSelected(role, identifier) = {} ) =>
            /\ a.status = b.status /\ a.message = b.message
            /\ a.role = b.role /\ a.user = b.user

\* C30 as stated: the same outcome and, on success, the same role and record id for
\* every identifier and password
LoginsAgreeAlways ==
  \A identifier \in Identifiers, password \in LoginPasswords :
    LET a == universalLogin(identifier, password)
        b == universalLogin2(identifier, password)
    IN /\ a.status = b.status /\ a.message = b.message
       /\ a.status = 200 => a.role = b.role /\ a.user.id = b.user.id

\* /api/universal-login has just logged a Cell in by its display name "A", as
\* /api/universal-login2 does, beside a Community that only the latter resolves
LoginsAgreeWitness ==
  /\ res = universalLogin(<<"A">>, <<"p">>)
  /\ res.status = 200 /\ res.role = "cell"
  /\ universalLogin2(<<"A">>, <<"p">>).user = res.user
  /\ Len(Community) = 1
  /\ universalLogin2(<<"a", SP, "b">>, <<"p">>).role = "community"
  /\ universalLogin(<<"a", SP, "b">>, <<"p">>).status = 404

LoginOps ==
  { "universal-login", "universal-login2", "campus/login", "district/login", "login",
    "cell/login", "superAdmin/login" }

\* C29: a step that answers a login request (a per-unit login, universal-login or
\* universal-login2), whatever the answer, leaves every Campus, District,
\* Community, Cell and SuperAdmin record, every post and the asset store as they
\* were.
LoginFrame ==
  [][ res'.op \in LoginOps =>
        /\ identity' = identity
        /\ Image' = Image
        /\ assets' = assets
    ]_vars

\* a per-unit login has just been refused for a wrong password, with two records
\* stored
LoginFrameWitness ==
  /\ res = campusLogin(<<"A">>, <<"P">>)
  /\ res.status = 400 /\ res.message = "Invalid credentials"
  /\ Len(Campus) = 1 /\ Len(SuperAdmin) = 1
  /\ superAdminLogin(<<"A">>, <<"p">>).status = 200
  /\ universalLogin2(<<"A">>, <<"p">>).role = "campus"

\* the login with the identifier and the password as supplied succeeds with
\* the newest record of role
LogsInNewest(role, identifier, password) ==
  \A r \in { universalLogin2(identifier, password) } :
    r.status = 200 /\ r.role = role /\ r.user.id = Len(Coll(role))

\* the name has no whitespace inside it but single spaces
SingleSpaced(name) == collapseWhitespace(trim(name)) = trim(name)

\* the round trip for the newest record of role and the form values it was
\* registered with: by name when the name is single spaced, by email always,
\* with the password as typed when the role stores it as typed or it has no
\* whitespace around it
RoundTrip(role, name, email, password) ==
  LET i == Len(Coll(role)) IN
  (role \in {"cell", "superadmin"} \/ trim(password) = password) =>
    /\ SingleSpaced(name) /\ Unshadowed(role, i, name) => LogsInNewest(role, name, password)
    /\ HasEmail(role) /\ Unshadowed(role, i, email) => LogsInNewest(role, email, password)

\* the round trip for every name, email and password as typed
RoundTripAlways(role, name, email, password) ==
  LET i == Len(Coll(role)) IN
  /\ Unshadowed(role, i, name) => LogsInNewest(role, name, password)
  /\ HasEmail(role) /\ Unshadowed(role, i, email) => LogsInNewest(role, email, password)

\* C25: after a successful registration, a universal-login2 with the email
\* exactly as typed, or with the name exactly as typed when the name has no
\* whitespace inside it but single spaces, and the password exactly as typed,
\* succeeds with the new record, provided no other record of its collection and
\* no record of a collection earlier in the cascade answers to the identifier,
\* and provided the password was typed without whitespace around it or the
\* record is a Cell or a SuperAdmin (whose password is stored as typed).
RawRoundTrip ==
  typed # NoForm => RoundTrip(typed.role, typed.name, typed.email, typed.password)

\* C25 as stated: the round trip for every raw name, email and password
RawRoundTripAlways ==
  typed # NoForm => RoundTripAlways(typed.role, typed.name, typed.email, typed.password)

\* a Cell registered under the name " a" with the password "p ", beside a
\* Campus, has just logged in with both exactly as typed
RawRoundTripWitness ==
  /\ typed = [role |-> "cell", name |-> <<SP, "a">>, email |-> <<SP, "E">>,
              password |-> <<"p", SP>>]
  /\ Len(Campus) = 1 /\ Len(Cell) = 1
  /\ Cell[1].name = <<"a">> /\ Cell[1].email = <<"e">> /\ Cell[1].password = <<"p", SP>>
  /\ res = universalLogin2(typed.name, typed.password)
  /\ res.status = 200 /\ res.role = "cell" /\ res.user.id = 1

\* the collection after a step holds every record it held before, at its place
\* and with every field as it was
Keeps(before, after) ==
  \/ after = before
  \/ /\ Len(after) >= Len(before)
     /\ \A i \in 1..Len(before) : after[i] = before[i]

\* C22: in every step, every collection keeps every record it holds, at its
\* place and with its password, display name, normalizedName, email and parent
\* references as they are; a step can only add records.
RecordsOnlyGrow ==
  [][ /\ Keeps(Campus, Campus')
      /\ Keeps(District, District')
      /\ Keeps(Community, Community')
      /\ Keeps(Cell, Cell')
      /\ Keeps(SuperAdmin, SuperAdmin')
    ]_vars

\* two Campus records are stored and the older one has just logged in with the
\* name and password it was registered with
RecordsOnlyGrowWitness ==
  /\ Len(Campus) = 2
  /\ rawName.campus[1] = <<"A">>
  /\ Campus[1].password = <<"p">>
  /\ res = universalLogin2(<<"A">>, <<"p">>)
  /\ res.status = 200 /\ res.role = "campus" /\ res.user.id = 1

ParentsExist ==
  /\ \A i \in 1..Len(District) : findById(Campus, District[i].campus) # 0
  /\ \A i \in 1..Len(Community) : findById(District, Community[i].district) # 0
  /\ \A i \in 1..Len(Cell) :
       /\ findById(Campus, Cell[i].campus) # 0
       /\ findById(District, Cell[i].district) # 0
       /\ findById(Community, Cell[i].community) # 0

\* a field left empty, or typed as whitespace only
Blanks == { <<>>, <<SP>>, <<TAB, SP>> }

\* the handler outcome is a 400 that stores nothing
Rejected400(o) == o.res.status = 400 /\ o.docs = <<>>

\* C24: a registration whose name, email, password or other required text field
\* is blank (empty or whitespace only) is answered 400 and stores no record.
BlankRejected ==
  \A b \in Blanks :
    /\ Rejected400(campusRegister(b, <<"x">>, <<"z">>, <<"p">>))
    /\ Rejected400(campusRegister(<<"z">>, b, <<"z">>, <<"p">>))
    /\ Rejected400(campusRegister(<<"z">>, <<"x">>, b, <<"p">>))
    /\ Rejected400(campusRegister(<<"z">>, <<"x">>, <<"z">>, b))
    /\ Rejected400(districtRegister(b, 1, <<"z">>, <<"p">>))
    /\ Rejected400(districtRegister(<<"z">>, 1, b, <<"p">>))
    /\ Rejected400(districtRegister(<<"z">>, 1, <<"z">>, b))
    /\ Rejected400(communityRegister(b, 1, <<"x">>, <<"x">>, <<"p">>))
    /\ Rejected400(communityRegister(<<"z">>, 1, b, <<"x">>, <<"p">>))
    /\ Rejected400(communityRegister(<<"z">>, 1, <<"x">>, b, <<"p">>))
    /\ Rejected400(communityRegister(<<"z">>, 1, <<"x">>, <<"x">>, b))
    /\ Rejected400(cellRegister(b, 1, 1, 1, <<"x">>, <<"x">>, <<"x">>, <<"z">>, <<"p">>))
    /\ Rejected400(cellRegister(<<"z">>, 1, 1, 1, b, <<"x">>, <<"x">>, <<"z">>, <<"p">>))
    /\ Rejected400(cellRegister(<<"z">>, 1, 1, 1, <<"x">>, b, <<"x">>, <<"z">>, <<"p">>))
    /\ Rejected400(cellRegister(<<"z">>, 1, 1, 1, <<"x">>, <<"x">>, b, <<"z">>, <<"p">>))
    /\ Rejected400(cellRegister(<<"z">>, 1, 1, 1, <<"x">>, <<"x">>, <<"x">>, b, <<"p">>))
    /\ Rejected400(cellRegister(<<"z">>, 1, 1, 1, <<"x">>, <<"x">>, <<"x">>, <<"z">>, b))
    /\ Rejected400(superAdminRegister(b, <<"p">>))
    /\ Rejected400(superAdminRegister(<<"z">>, b))

\* C26: once every toggle has completed, if the toggles were issued by distinct
\* devices then every post they touched has likes equal to the length of its
\* likedBy, and every device that toggled from not-liked is in its likedBy.
NoLostToggle ==
  ( /\ \A k \in 1..Len(reads) : reads[k].status # 0
    /\ \A j, k \in 1..Len(reads) : j # k => reads[j].deviceId # reads[k].deviceId )
  => \A k \in 1..Len(reads) :
       LET e == reads[k]
           post == Image[e.id]
       IN /\ post.likes = Len(post.likedBy)
          /\ ~LikedBy(e.image, e.deviceId) => LikedBy(post, e.deviceId)

====
